---- MODULE Spec2Model ----
(***************************************************************************)
(* Model of guten.py: the page classifier (Book.parse_site and its         *)
(* helpers), the document model (Book, Chapter, Paragraph) and the crawl   *)
(* controller (scrape).                                                    *)
(*                                                                         *)
(* Python objects live in two arenas: `heap` holds every Chapter object    *)
(* ever constructed (a Chapter is named by its index), `lists` holds the   *)
(* list objects a Chapter's `subchapters` attribute can refer to.  List 1  *)
(* is the list object of the default argument `subchapters=[]` of          *)
(* Chapter.__init__: Python evaluates it once, so every Chapter built      *)
(* without that argument refers to the same list object.                   *)
(*                                                                         *)
(* Texts are sequences of tokens, an element lookup that may find nothing  *)
(* yields a sequence of length 0 (None) or 1 (the element's text).         *)
(***************************************************************************)
EXTENDS Naturals, Sequences, FiniteSets

(* ------------------------------ bounds --------------------------------- *)

\* number of pages one crawl may fetch in the model
MaxFetches == 4

\* number of pages a crawl over pages that all link on may fetch
MaxChain == 5

\* number of children of an ordered list given to the outline extractor
MaxItems == 2

\* nesting depth of the ordered lists given to the outline extractor
MaxDepth == 2

\* number of children of a table-of-contents container
MaxTocChildren == 3

(* ------------------------------ inputs --------------------------------- *)

None == <<>>

Some(text) == <<text>>

NoNode == 0

DefaultList == 1

\* 'http://gutenberg.spiegel.de', the literal of scrape
BaseUrl == "http://gutenberg.spiegel.de"

\* the URL argument of main
StartUrl == <<"http://gutenberg.spiegel.de/buch/1">>

Hrefs == {"/buch/2", "/buch/3"}

ChapterTitles == {<<"Chapter One">>, <<"Chapter Two">>}

YearTexts == {<<"(", "1900", ")">>, <<"1900">>}

\* what soup.find_all('p') returns for a page
PTexts == {<<"p">>}

\* a page without an element with id 'gutenb': soup.find(id='gutenb') is None
NoContent == [found |-> FALSE, author |-> None, title |-> None, h1 |-> None, h2 |-> None, h3 |-> None, h4 |-> None, p |-> <<>>]

\* Content regions handed to parse_site with is_first=True.  That branch reads
\* the author, the title, the h4 and the p elements only; a front page may
\* carry an h1 all the same.
FrontSoups == {[found |-> TRUE, author |-> a, title |-> t, h1 |-> c, h2 |-> None, h3 |-> None, h4 |-> y, p |-> p] : a \in {None, Some(<<"A">>)}, t \in {None, Some(<<"T">>)}, c \in {None, Some(<<"Chapter One">>)}, y \in {None} \cup {Some(x) : x \in YearTexts}, p \in PTexts} \cup {NoContent}

\* The heading combinations of the pages that follow the front page: a
\* chapter page (h1, with or without an h2 subtitle), a subchapter page (h2,
\* with or without h3), a sub-subchapter page (h3, with or without h4) and a
\* continuation page (no heading).
HeadingCombos == {<<Some(c), s, None, None>> : c \in ChapterTitles, s \in {None, Some(<<"Sub">>)}} \cup {<<None, Some(<<"Sub">>), s, None>> : s \in {None, Some(<<"SubSub">>)}} \cup {<<None, None, Some(<<"SubSub">>), s>> : s \in {None, Some(<<"Detail">>)}} \cup {<<None, None, None, None>>}

BodySoups == {[found |-> TRUE, author |-> None, title |-> None, h1 |-> c[1], h2 |-> c[2], h3 |-> c[3], h4 |-> c[4], p |-> p] : c \in HeadingCombos, p \in PTexts} \cup {NoContent}

\* Elements that can follow the content region.  A string node
\* (NavigableString) has the name None, written "None" here.
Whitespace == [name |-> "None", text |-> <<"\n">>, href |-> None]

PlainText == [name |-> "None", text |-> <<"Ende">>, href |-> None]

Span == [name |-> "span", text |-> <<"<<">>, href |-> None]

Link(text, href) == [name |-> "a", text |-> text, href |-> href]

PrevLink == Link(<<"<<", "zurueck">>, Some("/buch/0"))

\* The navigation regions: the sequences of siblings after the content region.
NavRegions == {<<>>, <<Whitespace>>, <<Whitespace, PlainText>>, <<Whitespace, Span>>, <<Whitespace, Link(<<"weiter">>, None)>>, <<Whitespace, PrevLink>>, <<Whitespace, PrevLink, Whitespace>>, <<Whitespace, PrevLink, Whitespace, PlainText>>, <<Whitespace, PrevLink, Whitespace, Link(<<"Inhalt">>, Some("/buch/2"))>>} \cup {<<Whitespace, Link(<<"weiter", ">>">>, Some(h))>> : h \in Hrefs} \cup {<<Whitespace, PrevLink, Whitespace, Link(<<"weiter", ">>">>, Some(h))>> : h \in Hrefs}

Pages(first) == {[soup |-> s, siblings |-> n] : s \in (IF first THEN FrontSoups ELSE BodySoups), n \in NavRegions}

(* ----------------------- inputs of the outline ------------------------- *)

\* A node of a parsed document: a string node (name None, written "None") or
\* a tag with its class and its children.
Str(text) == [name |-> "None", class |-> "", text |-> text, children |-> <<>>]

Tag(name, class, children) == [name |-> name, class |-> class, text |-> <<>>, children |-> children]

\* no document: the crawl is given none
NoListing == Str(<<>>)

\* the sequences over S of length at most n
RECURSIVE SeqsUpTo(_, _)
SeqsUpTo(S, n) == IF n = 0 THEN {<<>>} ELSE SeqsUpTo(S, n - 1) \cup {Append(q, x) : q \in SeqsUpTo(S, n - 1), x \in S}

FlatItems == {Tag("li", "", <<Str(<<"Eins">>)>>), Tag("li", "", <<Str(<<"Zwei">>)>>)}

\* The ordered lists of nesting depth at most d: their children are string
\* nodes, flat items, and items that hold a text and an ordered list.
RECURSIVE Listings(_)
Listings(d) ==
    IF d = 0 THEN {}
    ELSE {Tag("ol", "", q) : q \in SeqsUpTo({Str(<<"\n">>)} \cup FlatItems \cup {Tag("li", "", <<Str(<<"Teil">>), o>>) : o \in Listings(d - 1)}, MaxItems)}

\* The children of a table-of-contents container: paragraphs, string nodes,
\* and ordered lists without items, with flat items, with a nested list.
TocChildren == {Tag("p", "", <<Str(<<"Vorwort">>)>>), Tag("p", "", <<Str(<<"Widmung">>)>>), Str(<<"\n">>), Tag("ol", "", <<Str(<<"\n">>)>>), Tag("ol", "", <<Tag("li", "", <<Str(<<"Eins">>)>>)>>), Tag("ol", "", <<Tag("li", "", <<Str(<<"Teil">>), Tag("ol", "", <<Tag("li", "", <<Str(<<"Zwei">>)>>)>>)>>)>>)}

\* The documents given to get_toc: with an element of class 'toc', or without.
TocSoups == {Tag("html", "", <<Tag("div", "toc", q)>>) : q \in SeqsUpTo(TocChildren, MaxTocChildren)} \cup {Tag("html", "", <<Tag("div", "", <<>>)>>)}

(* ------------------------------ state ---------------------------------- *)

VARIABLES pc, url, is_first, book, heap, lists, siblings, log, error, listing, outline

vars == <<pc, url, is_first, book, heap, lists, siblings, log, error, listing, outline>>

NoError == <<>>

(* -------------------------- document model ----------------------------- *)

\* Book.__init__
Book(u) == [url |-> u, author |-> None, title |-> None, year |-> None, chapters |-> <<>>]

\* Chapter.__init__ as every call of the crawl uses it: Chapter(name, url).
\* subchapters is the default argument's list object, paragraphs a new list.
Chapter(name, u) == [name |-> name, url |-> u, subtitle |-> None, subchapters |-> DefaultList, parent |-> NoNode, prev |-> NoNode, next |-> NoNode, paragraphs |-> <<>>]

\* Paragraph.__init__
Paragraph(u, text) == [url |-> u, text |-> text]

\* chapter.subchapters, read through the reference
Subchapters(h, l, n) == l[h[n].subchapters]

\* Chapter.parse_paragraph on Chapter n
parse_paragraph(h, n, soup, u) == [h EXCEPT ![n].paragraphs = Append(@, Paragraph(u, soup.p))]

(* --------------------------- page classifier --------------------------- *)

\* soup.find(tag): None, or the text of the first such element
find(soup, tag) == soup[tag]

\* 'h{}'.format(level)
HeadingTag(level) == CASE level = 1 -> "h1" [] level = 2 -> "h2" [] level = 3 -> "h3" [] OTHER -> "h4"

RECURSIVE lstrip(_, _)
\* str.lstrip(c): drop every leading c
lstrip(text, c) == IF text # <<>> /\ Head(text) = c THEN lstrip(Tail(text), c) ELSE text

RECURSIVE rstrip(_, _)
\* str.rstrip(c): drop every trailing c
rstrip(text, c) == IF text # <<>> /\ text[Len(text)] = c THEN rstrip(SubSeq(text, 1, Len(text) - 1), c) ELSE text

\* _find_chapter with the new Chapter left out of self.chapters (as parse_site
\* leaves the 'Backtext' Chapter out)
_find_chapter_unlisted(b, h, soup, u) ==
    IF ~soup.found
    THEN [book |-> b, heap |-> h, chapter |-> NoNode, created |-> FALSE, raised |-> <<"AttributeError", "_find_chapter">>]
    ELSE IF find(soup, "h1") # None
    THEN LET c == Len(h) + 1
             h1 == Append(h, Chapter(find(soup, "h1")[1], u))
             subtitle == find(soup, "h2")
         IN  [book |-> b,
              heap |-> IF subtitle # None THEN [h1 EXCEPT ![c].subtitle = subtitle] ELSE h1,
              chapter |-> c, created |-> TRUE, raised |-> NoError]
    ELSE IF b.chapters = <<>>
    THEN [book |-> b, heap |-> h, chapter |-> NoNode, created |-> FALSE, raised |-> <<"IndexError", "_find_chapter">>]
    ELSE [book |-> b, heap |-> h, chapter |-> b.chapters[Len(b.chapters)], created |-> FALSE, raised |-> NoError]

\* Book._find_chapter
_find_chapter(b, h, soup, u) ==
    IF ~soup.found
    THEN [book |-> b, heap |-> h, chapter |-> NoNode, created |-> FALSE, raised |-> <<"AttributeError", "_find_chapter">>]
    ELSE IF find(soup, "h1") # None
    THEN LET c == Len(h) + 1
             h1 == Append(h, Chapter(find(soup, "h1")[1], u))
             subtitle == find(soup, "h2")
         IN  [book |-> [b EXCEPT !.chapters = Append(@, c)],
              heap |-> IF subtitle # None THEN [h1 EXCEPT ![c].subtitle = subtitle] ELSE h1,
              chapter |-> c, created |-> TRUE, raised |-> NoError]
    ELSE IF b.chapters = <<>>
    THEN [book |-> b, heap |-> h, chapter |-> NoNode, created |-> FALSE, raised |-> <<"IndexError", "_find_chapter">>]
    ELSE [book |-> b, heap |-> h, chapter |-> b.chapters[Len(b.chapters)], created |-> FALSE, raised |-> NoError]

\* Book._find_subchapter
_find_subchapter(h, l, soup, chapter, u, level) ==
    IF find(soup, HeadingTag(level)) # None
    THEN LET s == Len(h) + 1
             h1 == Append(h, Chapter(find(soup, HeadingTag(level))[1], u))
             l1 == [l EXCEPT ![h[chapter].subchapters] = Append(@, s)]
             subtitle == find(soup, HeadingTag(level + 1))
         IN  IF subtitle = None
             THEN [heap |-> h1, lists |-> l1, subchapter |-> s, created |-> FALSE, raised |-> <<"AttributeError", "_find_subchapter">>]
             ELSE [heap |-> [h1 EXCEPT ![s].subtitle = subtitle], lists |-> l1, subchapter |-> s, created |-> TRUE, raised |-> NoError]
    ELSE IF Len(Subchapters(h, l, chapter)) > 0
    THEN [heap |-> h, lists |-> l, subchapter |-> Subchapters(h, l, chapter)[Len(Subchapters(h, l, chapter))], created |-> FALSE, raised |-> NoError]
    ELSE [heap |-> h, lists |-> l, subchapter |-> NoNode, created |-> FALSE, raised |-> NoError]

\* Book.parse_site, the branch of is_first=True
parse_first(b, h, l, soup, u) ==
    IF ~soup.found
    THEN [book |-> b, heap |-> h, lists |-> l, raised |-> <<"AttributeError", "parse_site">>]
    ELSE LET author == find(soup, "author")
             title == find(soup, "title")
             year == find(soup, "h4")
             c == Len(h) + 1
         IN  IF author = None
             THEN [book |-> b, heap |-> h, lists |-> l, raised |-> <<"AttributeError", "parse_site">>]
             ELSE IF title = None
             THEN [book |-> [b EXCEPT !.author = author], heap |-> h, lists |-> l, raised |-> <<"AttributeError", "parse_site">>]
             ELSE IF year = None
             THEN [book |-> [b EXCEPT !.author = author, !.title = title], heap |-> h, lists |-> l, raised |-> <<"AttributeError", "parse_site">>]
             ELSE [book |-> [b EXCEPT !.author = author, !.title = title, !.year = Some(rstrip(lstrip(year[1], "("), ")"))],
                   heap |-> parse_paragraph(Append(h, Chapter(<<"Backtext">>, u)), c, soup, u),
                   lists |-> l, raised |-> NoError]

\* Book.parse_site, the branch of is_first=False
parse_later(b, h, l, soup, u) ==
    LET fc == _find_chapter(b, h, soup, u)
    IN  IF fc.raised # NoError
        THEN [book |-> fc.book, heap |-> fc.heap, lists |-> l, raised |-> fc.raised]
        ELSE IF fc.created
        THEN [book |-> fc.book, heap |-> parse_paragraph(fc.heap, fc.chapter, soup, u), lists |-> l, raised |-> NoError]
        ELSE LET s2 == _find_subchapter(fc.heap, l, soup, fc.chapter, u, 2)
             IN  IF s2.raised # NoError
                 THEN [book |-> fc.book, heap |-> s2.heap, lists |-> s2.lists, raised |-> s2.raised]
                 ELSE IF s2.created
                 THEN [book |-> fc.book, heap |-> parse_paragraph(s2.heap, s2.subchapter, soup, u), lists |-> s2.lists, raised |-> NoError]
                 ELSE LET s3 == _find_subchapter(s2.heap, s2.lists, soup, fc.chapter, u, 3)
                      IN  IF s3.raised # NoError
                          THEN [book |-> fc.book, heap |-> s3.heap, lists |-> s3.lists, raised |-> s3.raised]
                          ELSE IF s3.created
                          THEN [book |-> fc.book, heap |-> parse_paragraph(s3.heap, s3.subchapter, soup, u), lists |-> s3.lists, raised |-> NoError]
                          ELSE [book |-> fc.book, heap |-> s3.heap, lists |-> s3.lists, raised |-> NoError]

\* parse_site without the branch of the first page
parse_site_no_special_case(b, h, l, soup, u, first) == parse_later(b, h, l, soup, u)

\* Book.parse_site
parse_site(b, h, l, soup, u, first) == IF first THEN parse_first(b, h, l, soup, u) ELSE parse_later(b, h, l, soup, u)

(* --------------------------- crawl controller -------------------------- *)

\* '<<' in text
Contains(text, marker) == \E i \in 1..Len(text) : text[i] = marker

\* the href taken as the whole URL
Resolve_without_base(href) == <<href>>

\* '{}{}'.format('http://gutenberg.spiegel.de', href)
Resolve(href) == <<BaseUrl, href>>

\* next_link['href'] and the recursive call of scrape
Follow(link) == IF link.href = None THEN [kind |-> "raise", href |-> "", raised |-> <<"KeyError", "scrape">>] ELSE [kind |-> "follow", href |-> link.href[1], raised |-> NoError]

Return == [kind |-> "return", href |-> "", raised |-> NoError]

Raise == [kind |-> "raise", href |-> "", raised |-> <<"AttributeError", "scrape">>]

\* scrape without the test next_link.name == 'a' on the first sibling
next_link_any_element(s) ==
    IF Len(s) < 2 THEN Raise
    ELSE IF Contains(s[2].text, "<<")
    THEN IF Len(s) < 4 THEN Raise
         ELSE IF s[4].name # "a" \/ ~Contains(s[4].text, ">>") THEN Return
         ELSE Follow(s[4])
    ELSE Follow(s[2])

\* scrape, from "Find the link to the next page" on: s is the sequence of
\* siblings after the content region.  x.next_sibling.next_sibling raises when
\* x is the last sibling and is None when one sibling follows x; None.name
\* raises.
next_link(s) ==
    IF Len(s) < 2 THEN Raise
    ELSE IF s[2].name = "a"
    THEN IF Contains(s[2].text, "<<")
         THEN IF Len(s) < 4 THEN Raise
              ELSE IF s[4].name # "a" \/ ~Contains(s[4].text, ">>") THEN Return
              ELSE Follow(s[4])
         ELSE Follow(s[2])
    ELSE Return

Init ==
    /\ pc = "scrape"
    /\ url = StartUrl
    /\ is_first = TRUE
    /\ book = Book(StartUrl)
    /\ heap = <<>>
    /\ lists = <<(<<>>)>>
    /\ siblings = <<>>
    /\ log = <<>>
    /\ error = NoError
    /\ listing = NoListing
    /\ outline = <<>>

\* scrape up to book.parse_site(content, url, is_first): the page is fetched
\* and classified
Scrape ==
    /\ pc = "scrape"
    /\ Len(log) < MaxFetches
    /\ \E page \in Pages(is_first) :
        LET r == parse_site(book, heap, lists, page.soup, url, is_first)
        IN  /\ log' = Append(log, [url |-> url, soup |-> page.soup])
            /\ siblings' = page.siblings
            /\ book' = r.book
            /\ heap' = r.heap
            /\ lists' = r.lists
            /\ error' = r.raised
            /\ pc' = IF r.raised = NoError THEN "navigate" ELSE "raised"
    /\ UNCHANGED <<url, is_first, listing, outline>>

\* requests.get raises: the exception unwinds every open call of scrape
FetchFailure ==
    /\ pc = "scrape"
    /\ Len(log) < MaxFetches
    /\ pc' = "raised"
    /\ error' = <<"RequestException", "requests.get">>
    /\ UNCHANGED <<url, is_first, book, heap, lists, siblings, log, listing, outline>>

\* scrape after parse_site: return, raise, or call scrape on the next page
Navigate ==
    /\ pc = "navigate"
    /\ LET n == next_link(siblings)
       IN  /\ pc' = CASE n.kind = "follow" -> "scrape" [] n.kind = "return" -> "returned" [] OTHER -> "raised"
           /\ url' = IF n.kind = "follow" THEN Resolve(n.href) ELSE url
           /\ is_first' = IF n.kind = "follow" THEN FALSE ELSE is_first
           /\ error' = n.raised
    /\ UNCHANGED <<book, heap, lists, siblings, log, listing, outline>>

Next == Scrape \/ FetchFailure \/ Navigate

Spec == Init /\ [][Next]_vars

\* Pages that each name a next page by a '>>' link: the crawls that go on.
ChainPages(first) == {[soup |-> s, siblings |-> <<Whitespace, Link(<<"weiter", ">>">>, Some(h))>>] : s \in (IF first THEN FrontSoups ELSE BodySoups), h \in Hrefs}

\* Scrape on such a page
ScrapeChain ==
    /\ pc = "scrape"
    /\ Len(log) < MaxChain
    /\ \E page \in ChainPages(is_first) :
        LET r == parse_site(book, heap, lists, page.soup, url, is_first)
        IN  /\ log' = Append(log, [url |-> url, soup |-> page.soup])
            /\ siblings' = page.siblings
            /\ book' = r.book
            /\ heap' = r.heap
            /\ lists' = r.lists
            /\ error' = r.raised
            /\ pc' = IF r.raised = NoError THEN "navigate" ELSE "raised"
    /\ UNCHANGED <<url, is_first, listing, outline>>

NextChain == ScrapeChain \/ Navigate

\* the crawls of up to MaxChain pages over pages that all link on
SpecChain == Init /\ [][NextChain]_vars

(* --------------------------- outline extractor ------------------------- *)

\* element.text: the strings below the element, joined in document order
RECURSIVE text(_)
text(e) ==
    IF e.name = "None" THEN e.text
    ELSE IF e.children = <<>> THEN <<>>
    ELSE text(Head(e.children)) \o text([e EXCEPT !.children = Tail(@)])

\* element.find(...): the first node below the element, in document order,
\* whose attribute has the value; None if there is none
RECURSIVE find_first(_, _, _)
find_first(nodes, attr, value) ==
    IF nodes = <<>> THEN None
    ELSE IF Head(nodes)[attr] = value THEN Some(Head(nodes))
    ELSE IF find_first(Head(nodes).children, attr, value) # None THEN find_first(Head(nodes).children, attr, value)
    ELSE find_first(Tail(nodes), attr, value)

\* Chapter(name=..., prev_=..., parent=...), the calls of get_chapter_list:
\* no argument is bound to the required parameter url, so the call raises
\* TypeError and no object is built.
Chapter_without_url(name, prev_chapter, parent) ==
    [raised |-> <<"TypeError", "Chapter.__init__">>,
     object |-> [Chapter(name, None) EXCEPT !.prev = prev_chapter, !.parent = parent]]

RECURSIVE get_chapter_list(_, _, _, _)
RECURSIVE chapter_list_loop(_, _, _, _, _, _, _)
\* get_chapter_list, the loop from child i on
chapter_list_loop(h, l, soup, parent, i, chapters, prev_chapter) ==
    IF i > Len(soup.children) THEN [heap |-> h, lists |-> l, chapters |-> chapters, raised |-> NoError]
    ELSE IF soup.children[i].name # "li" THEN chapter_list_loop(h, l, soup, parent, i + 1, chapters, prev_chapter)
    ELSE LET c == soup.children[i]
             subchapters == find_first(c.children, "name", "ol")
             call == Chapter_without_url(IF subchapters # None THEN text(c.children[1]) ELSE text(c), prev_chapter, parent)
             chapter == Len(h) + 1
             below == IF subchapters # None THEN get_chapter_list(Append(h, call.object), l, subchapters[1], chapter) ELSE [heap |-> Append(h, call.object), lists |-> l, chapters |-> <<>>, raised |-> NoError]
             l1 == IF subchapters # None THEN Append(below.lists, below.chapters) ELSE below.lists
             h1 == IF subchapters # None THEN [below.heap EXCEPT ![chapter].subchapters = Len(l1)] ELSE below.heap
             h2 == IF prev_chapter # NoNode THEN [h1 EXCEPT ![prev_chapter].next = chapter] ELSE h1
         IN  IF call.raised # NoError THEN [heap |-> h, lists |-> l, chapters |-> chapters, raised |-> call.raised]
             ELSE IF below.raised # NoError THEN [heap |-> below.heap, lists |-> below.lists, chapters |-> chapters, raised |-> below.raised]
             ELSE chapter_list_loop(h2, l1, soup, parent, i + 1, Append(chapters, chapter), chapter)

\* get_chapter_list
get_chapter_list(h, l, soup, parent) == chapter_list_loop(h, l, soup, parent, 1, <<>>, NoNode)

RECURSIVE toc_loop(_, _, _, _, _, _, _)
\* get_toc, the loop from child i on
toc_loop(h, l, toc, i, chapters, prev_chapter, chapter_list) ==
    IF i > Len(toc.children) THEN [heap |-> h, lists |-> l, chapters |-> chapters, chapter_list |-> chapter_list]
    ELSE LET c == toc.children[i]
             chapter == Len(h) + 1
             h1 == Append(h, Chapter(text(c), prev_chapter))
             h2 == IF prev_chapter # NoNode THEN [h1 EXCEPT ![prev_chapter].next = chapter] ELSE h1
         IN  IF c.name = "p" THEN toc_loop(h2, l, toc, i + 1, Append(chapters, chapter), chapter, chapter_list)
             ELSE IF c.name = "ol" THEN toc_loop(h, l, toc, i + 1, chapters, prev_chapter, Some(c))
             ELSE toc_loop(h, l, toc, i + 1, chapters, prev_chapter, chapter_list)

\* get_toc
get_toc(h, l, soup) ==
    LET toc == find_first(soup.children, "class", "toc")
    IN  IF toc = None THEN [heap |-> h, lists |-> l, chapters |-> <<>>, raised |-> <<"AttributeError", "get_toc">>]
        ELSE LET loop == toc_loop(h, l, toc[1], 1, <<>>, NoNode, None)
             IN  IF loop.chapter_list = None
                 THEN [heap |-> loop.heap, lists |-> loop.lists, chapters |-> <<>>, raised |-> <<"AttributeError", "get_chapter_list">>]
                 ELSE LET rest == get_chapter_list(loop.heap, loop.lists, loop.chapter_list[1], NoNode)
                      IN  [heap |-> rest.heap, lists |-> rest.lists, chapters |-> IF rest.raised = NoError THEN loop.chapters \o rest.chapters ELSE <<>>, raised |-> rest.raised]

\* The extractor is called in a process of its own: no Chapter exists yet and
\* the default list of Chapter.__init__ is empty.
InitOutline ==
    /\ pc = "outline"
    /\ listing \in Listings(MaxDepth) \cup TocSoups
    /\ outline = <<>>
    /\ url = StartUrl
    /\ is_first = TRUE
    /\ book = Book(StartUrl)
    /\ heap = <<>>
    /\ lists = <<(<<>>)>>
    /\ siblings = <<>>
    /\ log = <<>>
    /\ error = NoError

\* a call get_chapter_list(soup) on an ordered list
GetChapterList ==
    /\ pc = "outline"
    /\ listing.name = "ol"
    /\ LET r == get_chapter_list(heap, lists, listing, NoNode)
       IN  /\ heap' = r.heap
           /\ lists' = r.lists
           /\ outline' = r.chapters
           /\ error' = r.raised
           /\ pc' = IF r.raised = NoError THEN "returned" ELSE "raised"
    /\ UNCHANGED <<url, is_first, book, siblings, log, listing>>

\* a call get_toc(soup) on a document
GetToc ==
    /\ pc = "outline"
    /\ listing.name = "html"
    /\ LET r == get_toc(heap, lists, listing)
       IN  /\ heap' = r.heap
           /\ lists' = r.lists
           /\ outline' = r.chapters
           /\ error' = r.raised
           /\ pc' = IF r.raised = NoError THEN "returned" ELSE "raised"
    /\ UNCHANGED <<url, is_first, book, siblings, log, listing>>

NextOutline == GetChapterList \/ GetToc

\* the calls of the outline extractor on the bounded documents
SpecOutline == InitOutline /\ [][NextOutline]_vars

(* ------------------------------ properties ----------------------------- *)

Last(s) == s[Len(s)]

\* the step is a call of parse_site on a page after the front page
ClassifiesLater == pc = "scrape" /\ ~is_first /\ Len(log') = Len(log) + 1 /\ Last(log').soup.found

\* the content region parse_site is given in that step
Classified == Last(log').soup

NoHeading(soup) == soup.found /\ soup.h1 = None /\ soup.h2 = None /\ soup.h3 = None

\* the most specific open node: the last sub-subchapter if there is one, else
\* the last subchapter, else the last chapter
DeepestOpen ==
    LET c == Last(book.chapters)
        subs == Subchapters(heap, lists, c)
    IN  IF subs = <<>> THEN c
        ELSE IF Subchapters(heap, lists, Last(subs)) = <<>> THEN Last(subs)
        ELSE Last(Subchapters(heap, lists, Last(subs)))

\* C1: classifying a continuation page (no h1, h2, h3) while a chapter is open
\* appends exactly one Paragraph of that page to the deepest open node and
\* creates no node.
C1_ContinuationAppends ==
    [][(ClassifiesLater /\ NoHeading(Classified) /\ book.chapters # <<>>) =>
        /\ heap' = [heap EXCEPT ![DeepestOpen].paragraphs = Append(@, Paragraph(url, Classified.p))]
        /\ lists' = lists
        /\ book' = book]_vars

\* C2: the crawl of the 3-page site (front page with author A, title T, year
\* "(1900)"; a page with an h1; a page without headings; a terminating
\* navigation region) returns a Book with author A, title T, year 1900 and one
\* Chapter holding the Paragraphs of page 2 and page 3, in that order.
C2_ThreePageSite ==
    (/\ pc = "returned"
     /\ Len(log) = 3
     /\ log[1].soup.author = Some(<<"A">>)
     /\ log[1].soup.title = Some(<<"T">>)
     /\ log[1].soup.h4 = Some(<<"(", "1900", ")">>)
     /\ log[2].soup.h1 # None
     /\ NoHeading(log[3].soup))
    => (/\ book.author = Some(<<"A">>)
        /\ book.title = Some(<<"T">>)
        /\ book.year = Some(<<"1900">>)
        /\ Len(book.chapters) = 1
        /\ heap[book.chapters[1]].paragraphs = <<Paragraph(log[2].url, log[2].soup.p), Paragraph(log[3].url, log[3].soup.p)>>)

\* C3: classifying a later page with an h1 appends exactly one new Chapter to
\* the end of book.chapters, named with the h1 text; no earlier Chapter's
\* paragraphs change and the new Chapter holds exactly the page's Paragraph.
C3_ChapterPage ==
    [][(ClassifiesLater /\ Classified.h1 # None) =>
        /\ Len(heap') = Len(heap) + 1
        /\ book'.chapters = Append(book.chapters, Len(heap'))
        /\ heap'[Len(heap')].name = Classified.h1[1]
        /\ \A n \in 1..Len(heap) : heap'[n].paragraphs = heap[n].paragraphs
        /\ heap'[Len(heap')].paragraphs = <<Paragraph(url, Classified.p)>>]_vars

\* a chapter page was classified while an earlier Chapter with a Paragraph existed
C3_Witness ==
    /\ pc = "navigate"
    /\ Len(log) >= 3
    /\ Last(log).soup.h1 # None
    /\ Len(book.chapters) >= 2
    /\ heap[book.chapters[1]].paragraphs # <<>>
    /\ Len(heap[Last(book.chapters)].paragraphs) = 1

\* C4: a later page without h1 and with an h2, with or without an h3, appends a
\* new Subchapter to the last Chapter's subchapters and attaches the page's
\* Paragraph to it.
C4_SubchapterPage ==
    [][(ClassifiesLater /\ Classified.h1 = None /\ Classified.h2 # None /\ book.chapters # <<>>) =>
        /\ pc' # "raised"
        /\ Len(heap') = Len(heap) + 1
        /\ Subchapters(heap', lists', Last(book.chapters)) = Append(Subchapters(heap, lists, Last(book.chapters)), Len(heap'))
        /\ heap'[Len(heap')].paragraphs = <<Paragraph(url, Classified.p)>>]_vars

\* C5: a later page with an h3 and no h1, h2, classified while the last Chapter
\* has a Subchapter, appends a new node to that Subchapter's subchapters, not to
\* the Chapter's, and attaches the page's Paragraph to the new node.
C5_SubSubchapterPage ==
    [][(/\ ClassifiesLater
        /\ Classified.h1 = None /\ Classified.h2 = None /\ Classified.h3 # None
        /\ book.chapters # <<>>
        /\ Subchapters(heap, lists, Last(book.chapters)) # <<>>) =>
        LET c == Last(book.chapters)
            sub == Last(Subchapters(heap, lists, c))
        IN  /\ Len(heap') = Len(heap) + 1
            /\ Subchapters(heap', lists', sub) = Append(Subchapters(heap, lists, sub), Len(heap'))
            /\ Subchapters(heap', lists', c) = Subchapters(heap, lists, c)
            /\ heap'[Len(heap')].paragraphs = <<Paragraph(url, Classified.p)>>]_vars

\* C6: every Chapter has its own child sequence: a Chapter created by a step
\* has no subchapters after it, a step changes the subchapters of at most one
\* Chapter, and no Chapter is among its own subchapters.
C6_OwnChildSequence ==
    [][/\ \A n \in (Len(heap) + 1)..Len(heap') : Subchapters(heap', lists', n) = <<>>
       /\ \A m, n \in 1..Len(heap) :
            (m # n /\ Subchapters(heap', lists', m) # Subchapters(heap, lists, m))
                => Subchapters(heap', lists', n) = Subchapters(heap, lists, n)
       /\ \A n \in 1..Len(heap') : \A i \in 1..Len(Subchapters(heap', lists', n)) : Subchapters(heap', lists', n)[i] # n]_vars

\* the first sibling element is a link with '<<' and the element beyond it is
\* absent, not a link, or a link without '>>'
LastPageRegion(s) ==
    /\ Len(s) >= 2
    /\ s[2].name = "a"
    /\ \E i \in 1..Len(s[2].text) : s[2].text[i] = "<<"
    /\ \/ Len(s) < 4
       \/ s[4].name # "a"
       \/ \A i \in 1..Len(s[4].text) : s[4].text[i] # ">>"

\* C7: on such a region the crawl returns normally after the page is processed
\* and fetches nothing more.
C7_LastPageReturns ==
    [][/\ (pc = "navigate" /\ LastPageRegion(siblings)) => (pc' = "returned" /\ error' = NoError /\ log' = log)
       /\ pc # "returned"]_vars

LinkToFollow(s) == IF \E i \in 1..Len(s[2].text) : s[2].text[i] = "<<" THEN s[4] ELSE s[2]

\* C9: a page is fetched only at the current URL, once, and is classified in
\* the same step, before its navigation is inspected; the navigation step
\* fetches and classifies nothing; the URL changes only by resolving the link
\* to follow, to the base URL followed by that link's href.
C9_SequentialLinkOrder ==
    [][/\ (log' # log) =>
            (pc = "scrape" /\ Len(log') = Len(log) + 1 /\ SubSeq(log', 1, Len(log)) = log /\ Last(log').url = url /\ url' = url)
       /\ (pc' = "navigate") => (log' # log)
       /\ (pc = "navigate") => (book' = book /\ heap' = heap /\ lists' = lists /\ log' = log)
       /\ (pc' = "scrape" \/ url' # url) =>
            (/\ pc = "navigate"
             /\ pc' = "scrape"
             /\ LinkToFollow(siblings).name = "a"
             /\ LinkToFollow(siblings).href # None
             /\ url' = <<"http://gutenberg.spiegel.de", LinkToFollow(siblings).href[1]>>)]_vars

\* three pages were fetched, the third through the '>>' link beyond a '<<' link
C9_Witness ==
    /\ pc = "navigate"
    /\ Len(log) = 3
    /\ log[1].url = StartUrl
    /\ log[2].url = <<"http://gutenberg.spiegel.de", "/buch/2">>
    /\ log[3].url = <<"http://gutenberg.spiegel.de", "/buch/3">>

\* the structural markers parse_site requires of page i are there
MarkersPresent(i) ==
    /\ log[i].soup.found
    /\ i = 1 => (log[i].soup.author # None /\ log[i].soup.title # None /\ log[i].soup.h4 # None)

\* the region names a next page by a link with an href, or is one of the
\* terminating regions
WellFormedRegion(s) ==
    /\ Len(s) >= 2
    /\ s[2].name = "a" =>
        IF \E i \in 1..Len(s[2].text) : s[2].text[i] = "<<"
        THEN Len(s) >= 4 /\ (s[4].name = "a" => s[4].href # None)
        ELSE s[2].href # None

\* C10: on a well-formed, finite navigation chain (no URL met twice, every page
\* with its markers and a well-formed navigation region) the crawl does not
\* abort: it stops only in the terminal state, having fetched every page of the
\* chain.
C10_WellFormedChainTerminates ==
    (/\ pc = "raised"
     /\ error[2] # "requests.get"
     /\ \A i \in 1..Len(log) : MarkersPresent(i)
     /\ \A i, j \in 1..Len(log) : i # j => log[i].url # log[j].url)
    => ~WellFormedRegion(siblings)

\* raw is stripped with opening parentheses before it and closing ones after it
StripsTo(raw, stripped) ==
    \E i \in 0..Len(raw) : \E j \in i..Len(raw) :
        /\ stripped = SubSeq(raw, i + 1, j)
        /\ \A k \in 1..i : raw[k] = "("
        /\ \A k \in (j + 1)..Len(raw) : raw[k] = ")"
        /\ (stripped # <<>> => (stripped[1] # "(" /\ stripped[Len(stripped)] # ")"))

\* C11: the first-page case is applied to the first fetched page and to no
\* other: that page sets author, title and year (parentheses stripped) and is
\* not classified by its headings; every later page is classified by its
\* headings (an h1 starts a Chapter) and leaves author, title and year alone.
C11_FirstPageOnce ==
    [][(log' # log) =>
        IF Len(log) = 0
        THEN (Classified.found /\ Classified.author # None /\ Classified.title # None /\ Classified.h4 # None) =>
                (/\ book'.author = Classified.author
                 /\ book'.title = Classified.title
                 /\ book'.year # None
                 /\ StripsTo(Classified.h4[1], book'.year[1])
                 /\ book'.chapters = book.chapters
                 /\ pc' = "navigate")
        ELSE /\ book'.author = book.author
             /\ book'.title = book.title
             /\ book'.year = book.year
             /\ (Classified.found /\ Classified.h1 # None) => Len(book'.chapters) = Len(book.chapters) + 1]_vars

\* a front page with an h1 and the year "(1900)" was processed, and a later
\* page started a Chapter
C11_Witness ==
    /\ Len(log) >= 2
    /\ log[1].soup.h1 # None
    /\ log[1].soup.h4 = Some(<<"(", "1900", ")">>)
    /\ book.author = Some(<<"A">>)
    /\ book.title = Some(<<"T">>)
    /\ book.year = Some(<<"1900">>)
    /\ Len(book.chapters) = 1

\* C12: once the first page is processed the document holds a Chapter named
\* 'Backtext' whose paragraphs are exactly the first page's Paragraph, and in
\* every later state that Chapter has no subchapters.
C12_BacktextInDocument ==
    (Len(log) >= 1 /\ (Len(log) = 1 => pc = "navigate")) =>
        \E i \in 1..Len(book.chapters) :
            /\ heap[book.chapters[i]].name = <<"Backtext">>
            /\ heap[book.chapters[i]].paragraphs = <<Paragraph(log[1].url, log[1].soup.p)>>
            /\ Subchapters(heap, lists, book.chapters[i]) = <<>>

\* C13: when an h1 page starts a Chapter while an earlier top-level Chapter
\* exists, the earlier one's next is the new Chapter and the new one's prev is
\* the earlier one.
C13_SiblingLinked ==
    [][(ClassifiesLater /\ Classified.h1 # None /\ book.chapters # <<>>) =>
        /\ Len(book'.chapters) = Len(book.chapters) + 1
        /\ heap'[Last(book.chapters)].next = Last(book'.chapters)
        /\ heap'[Last(book'.chapters)].prev = Last(book.chapters)]_vars

\* C14: a later page with an h3 and no h1, h2, classified while the last
\* Chapter has no Subchapter, is treated as a continuation of that Chapter: its
\* Paragraph is appended to the Chapter, no node is created, nothing is raised.
C14_ThirdLevelFallback ==
    [][(/\ ClassifiesLater
        /\ Classified.h1 = None /\ Classified.h2 = None /\ Classified.h3 # None
        /\ book.chapters # <<>>
        /\ Subchapters(heap, lists, Last(book.chapters)) = <<>>) =>
        /\ pc' # "raised"
        /\ heap' = [heap EXCEPT ![Last(book.chapters)].paragraphs = Append(@, Paragraph(url, Classified.p))]
        /\ lists' = lists
        /\ book' = book]_vars

\* C19: the page directly after the front page, when it has no h1 (a
\* continuation page, or a page with an h2 or an h3), is classified without
\* failure, and its Paragraph goes to the node the front page opened (the
\* 'Backtext' Chapter) or to the node the page starts under it.
C19_NoChapterYetFallback ==
    [][(ClassifiesLater /\ Len(log) = 1 /\ Classified.h1 = None) =>
        /\ pc' # "raised"
        /\ \E n \in 1..Len(heap') :
            /\ (n <= Len(heap) => heap[n].name = <<"Backtext">>)
            /\ heap'[n].paragraphs # <<>>
            /\ Last(heap'[n].paragraphs) = Paragraph(url, Classified.p)
            /\ Len(heap'[n].paragraphs) = (IF n <= Len(heap) THEN Len(heap[n].paragraphs) ELSE 0) + 1]_vars

\* a Chapter A was started, received a Subchapter, and the last page fetched
\* started the next Chapter B
SubchapterThenNewChapter ==
    /\ Len(log) >= 4
    /\ Last(log).soup.found /\ Last(log).soup.h1 # None
    /\ \E i \in 2..(Len(log) - 2) :
        /\ log[i].soup.h1 # None
        /\ \A k \in (i + 1)..(Len(log) - 1) : log[k].soup.found /\ log[k].soup.h1 = None
        /\ \E k \in (i + 1)..(Len(log) - 1) : log[k].soup.h2 # None

\* C20: after Chapter A received a Subchapter and an h1 page started Chapter
\* B, a continuation page has its Paragraph appended to B; no other node gains
\* a Paragraph and no node gains a child.
C20_NewChapterResetsCurrent ==
    [][(ClassifiesLater /\ NoHeading(Classified) /\ SubchapterThenNewChapter) =>
        /\ heap' = [heap EXCEPT ![Last(book.chapters)].paragraphs = Append(@, Paragraph(url, Classified.p))]
        /\ lists' = lists
        /\ book' = book]_vars

\* the list items among the children of an ordered list, in document order
Items(ol) == SelectSeq(ol.children, LAMBDA c : c.name = "li")

\* the ordered list an item holds, if any
NestedList(item) == SelectSeq(item.children, LAMBDA c : c.name = "ol")

RECURSIVE ListingDepth(_)
\* the nesting depth of an ordered list: 0 without items, else 1 more than the
\* deepest list held by an item
ListingDepth(ol) ==
    IF Items(ol) = <<>> THEN 0
    ELSE LET below == {IF NestedList(Items(ol)[i]) = <<>> THEN 0 ELSE ListingDepth(NestedList(Items(ol)[i])[1]) : i \in 1..Len(Items(ol))}
         IN  1 + (CHOOSE d \in below : \A e \in below : e <= d)

RECURSIVE ExpectedOutline(_)
\* the outline an ordered list stands for: one node per item, named by the
\* item's first text when it holds a list and by its whole text otherwise
ExpectedOutline(ol) ==
    [i \in 1..Len(Items(ol)) |->
        IF NestedList(Items(ol)[i]) = <<>>
        THEN [name |-> text(Items(ol)[i]), children |-> <<>>]
        ELSE [name |-> text(Items(ol)[i].children[1]), children |-> ExpectedOutline(NestedList(Items(ol)[i])[1])]]

RECURSIVE OutlineTree(_)
\* the outline the Chapters of a list make up
OutlineTree(chapters) ==
    [i \in 1..Len(chapters) |-> [name |-> heap[chapters[i]].name, children |-> OutlineTree(Subchapters(heap, lists, chapters[i]))]]

RECURSIVE TreeDepth(_)
TreeDepth(tree) ==
    IF tree = <<>> THEN 0
    ELSE LET below == {TreeDepth(tree[i].children) : i \in 1..Len(tree)}
         IN  1 + (CHOOSE d \in below : \A e \in below : e <= d)

\* get_chapter_list was called on the ordered list and the call is over
ListExtracted == pc \in {"returned", "raised"} /\ listing.name = "ol"

\* C15: for an ordered list with flat items only, get_chapter_list returns one
\* node per list item, in document order, each with the item's text as name
\* and no children; other children are skipped.
C15_FlatListing ==
    (ListExtracted /\ \A i \in 1..Len(Items(listing)) : NestedList(Items(listing)[i]) = <<>>) =>
        /\ pc = "returned"
        /\ Len(outline) = Len(Items(listing))
        /\ \A i \in 1..Len(outline) :
            /\ heap[outline[i]].name = text(Items(listing)[i])
            /\ Subchapters(heap, lists, outline[i]) = <<>>

\* C16: for a nested ordered list of depth D, get_chapter_list returns a tree
\* of depth D: an item holding a list becomes a node whose children are the
\* extraction of that list, and siblings keep their order at every level.
C16_NestedListing ==
    (ListExtracted /\ ListingDepth(listing) >= 2) =>
        /\ pc = "returned"
        /\ OutlineTree(outline) = ExpectedOutline(listing)
        /\ TreeDepth(OutlineTree(outline)) = ListingDepth(listing)

\* the container of class 'toc' of the document
TocContainer == listing.children[1]

\* the position of the first ordered list among the container's children
FirstList == CHOOSE i \in 1..Len(TocContainer.children) : TocContainer.children[i].name = "ol" /\ \A j \in 1..(i - 1) : TocContainer.children[j].name # "ol"

\* get_toc was called on a document whose container holds an ordered list,
\* and the call is over
TocExtracted ==
    /\ pc \in {"returned", "raised"}
    /\ listing.name = "html"
    /\ TocContainer.class = "toc"
    /\ \E i \in 1..Len(TocContainer.children) : TocContainer.children[i].name = "ol"

\* C17: get_toc returns one childless node for each p before the first ordered
\* list, in document order, followed by the extraction of that list; a p after
\* the list and later lists add nothing.
C17_TocLookup ==
    TocExtracted =>
        /\ pc = "returned"
        /\ OutlineTree(outline) =
              [i \in 1..Len(SelectSeq(SubSeq(TocContainer.children, 1, FirstList - 1), LAMBDA c : c.name = "p")) |->
                  [name |-> text(SelectSeq(SubSeq(TocContainer.children, 1, FirstList - 1), LAMBDA c : c.name = "p")[i]), children |-> <<>>]]
              \o ExpectedOutline(TocContainer.children[FirstList])

RECURSIVE SiblingsLinked(_, _)
\* the Chapters of a list are linked to their neighbours and to their parent,
\* and so are their subchapters
SiblingsLinked(chapters, parent) ==
    \A i \in 1..Len(chapters) :
        /\ heap[chapters[i]].prev = (IF i = 1 THEN NoNode ELSE chapters[i - 1])
        /\ heap[chapters[i]].next = (IF i = Len(chapters) THEN NoNode ELSE chapters[i + 1])
        /\ (parent # NoNode => heap[chapters[i]].parent = parent)
        /\ SiblingsLinked(Subchapters(heap, lists, chapters[i]), chapters[i])

\* C18: in a returned outline consecutive nodes of a level are linked both
\* ways (a.next = b and b.prev = a), the first node has no prev and the last no
\* next, and a node from a nested list has the enclosing item's node as parent.
C18_OutlineLinks == (pc = "returned" /\ listing.name \in {"ol", "html"}) => SiblingsLinked(outline, NoNode)

====
